---- MODULE Spec2Model ----
\* Model of the banshee detector (src/detector/detector.go): a TCP server that
\* starts one handler per accepted connection; every handler reads lines,
\* parses them, filters them by the blacklist, updates the per-metric state in
\* the store (Get, compute, Put) and sends the scored metric to the channel rc.
EXTENDS Integers, Sequences, FiniteSets, TLC

\* ---------------------------------------------------------------- bounds
\* Lines that the clients deliver in total, over all connections.
MaxLines == 4
\* Largest configured cfg.Detector.StartSize that is explored (0..MaxStartSize).
MaxStartSize == 3
\* Capacity of the channel rc. The source sets 10 * 1024 (detector.go:26);
\* the model scales it down so that a full channel is reached.
bufferedDetectedMetricsLimit == 2
\* Size of the buffer of the bufio.Scanner that handle() creates with
\* bufio.NewScanner(conn) (detector.go:79), in characters. The library's
\* default is 64 * 1024; the model scales it down to just above the longest
\* well-formed line of the inputs.
MaxScanTokenSize == 10

\* ---------------------------------------------------------------- inputs
Conns == {"c1", "c2"}
Names == { <<"a">>, <<"d", "b">> }
Values == {10, 100}
\* cfg.Detector.BlackList: the configurations explored.
BlackLists == { <<>>, << <<"a", "?">>, <<"d", "*">> >> }
\* Contents of d.rules that match() is applied to (the source never fills
\* d.rules; these are the inputs for the claims about match as a function).
RuleLists == { <<>>, << <<"a">> >>, << <<"x">>, <<"*">> >> }
\* cfg.Detector.Factor as a fraction num/den.
Factor == [num |-> 1, den |-> 2]

Min(a, b) == IF a < b THEN a ELSE b
Max(a, b) == IF a > b THEN a ELSE b

\* ---------------------------------------------------------------- lines
Word(w) == [kind |-> "word", word |-> w, num |-> 0]
Num(i) == [kind |-> "num", word |-> <<>>, num |-> i]

GoodLines == { <<Word(n), Num(v), Num(1)>> : n \in Names, v \in Values }
\* Malformed lines: a missing field, a value that is no number, a negative
\* stamp, and a line that is longer than the scanner's buffer.
BadLines == { <<Word(<<"a">>), Num(10)>>,
              <<Word(<<"a">>), Word(<<"a">>), Num(1)>>,
              <<Word(<<"a">>), Num(10), Num(0 - 1)>>,
              <<Word(<<"a", "a", "a", "a", "a", "a", "a", "a", "a">>),
                Num(10), Num(1)>> }
Lines == GoodLines \cup BadLines

\* Number of characters of a line: the fields and one space between them.
RECURSIVE digits(_)
digits(n) == IF n < 10 THEN 1 ELSE 1 + digits(n \div 10)

fieldSize(f) ==
    IF f.kind = "word" THEN Len(f.word)
    ELSE IF f.num < 0 THEN 1 + digits(0 - f.num) ELSE digits(f.num)

RECURSIVE lineSize(_)
lineSize(l) ==
    IF l = <<>> THEN 0
    ELSE fieldSize(Head(l))
         + (IF Tail(l) = <<>> THEN 0 ELSE 1 + lineSize(Tail(l)))

\* The scanner fills its buffer without finding the end of the line:
\* scanner.Scan() returns false and scanner.Err() is bufio.ErrTooLong.
tooLong(l) == lineSize(l) >= MaxScanTokenSize

NoMetric == [Name |-> <<>>, Stamp |-> 0, Value |-> 0, Score |-> 0, Average |-> 0]
NoState == [Average |-> 0, StdDev |-> 0, Count |-> 0]

\* parseMetric: three fields, a numeric value, a non-negative integer stamp.
parseOk(l) ==
    /\ Len(l) = 3
    /\ l[2].kind = "num"
    /\ l[3].kind = "num"
    /\ l[3].num >= 0

parseMetric(l) ==
    [Name |-> l[1].word, Stamp |-> l[3].num, Value |-> l[2].num,
     Score |-> 0, Average |-> 0]

\* util.Match(pattern, name): shell glob over the whole name; "*" matches any
\* run of characters, "?" exactly one character, anything else itself.
RECURSIVE Match(_, _)
Match(p, s) ==
    IF p = <<>> THEN s = <<>>
    ELSE IF Head(p) = "*"
         THEN Match(Tail(p), s) \/ (s # <<>> /\ Match(p, Tail(s)))
         ELSE /\ s # <<>>
              /\ (Head(p) = "?" \/ Head(p) = Head(s))
              /\ Match(Tail(p), Tail(s))

\* ---------------------------------------------------------------- numbers
\* Largest r with r * r <= n.
RECURSIVE isqrtFrom(_, _)
isqrtFrom(n, r) == IF (r + 1) * (r + 1) > n THEN r ELSE isqrtFrom(n, r + 1)
isqrt(n) == isqrtFrom(n, 0)

\* ewma(wf, avgOld, v) = wf*v + (1-wf)*avgOld, in integer units.
ewma(wf, avgOld, v) == (wf.num * v + (wf.den - wf.num) * avgOld) \div wf.den

\* ewms(wf, avgOld, avgNew, stdOld, v) =
\*   sqrt((1-wf) * (stdOld^2 + (v-avgOld) * wf*(v-avgOld))), in integer units.
ewms(wf, avgOld, avgNew, stdOld, v) ==
    isqrt(((wf.den - wf.num)
             * (stdOld * stdOld * wf.den + (v - avgOld) * (v - avgOld) * wf.num))
          \div (wf.den * wf.den))

\* div3Sigma(avg, std, v) = (v-avg)/(3*std), 0 when std is 0; in thousandths.
div3Sigma(avg, std, v) ==
    IF std = 0 THEN 0 ELSE ((v - avg) * 1000) \div (3 * std)

\* ---------------------------------------------------------------- detect
\* The new state computed by detect (detector.go:149-166). found is FALSE when
\* Get returned sdb.ErrNotFound; state is the state Get returned otherwise.
nextState_noFirst(found, state, v, startSize) ==
    [Average |-> ewma(Factor, state.Average, v),
     StdDev |-> ewms(Factor, state.Average,
                     ewma(Factor, state.Average, v), state.StdDev, v),
     Count |-> IF state.Count < startSize
               THEN state.Count + 1 ELSE state.Count]

nextState_noCap(found, state, v, startSize) ==
    IF ~found
    THEN [Average |-> v, StdDev |-> 0, Count |-> 1]
    ELSE [Average |-> ewma(Factor, state.Average, v),
          StdDev |-> ewms(Factor, state.Average,
                          ewma(Factor, state.Average, v), state.StdDev, v),
          Count |-> state.Count + 1]

nextState(found, state, v, startSize) ==
    IF ~found
    THEN [Average |-> v, StdDev |-> 0, Count |-> 1]
    ELSE [Average |-> ewma(Factor, state.Average, v),
          StdDev |-> ewms(Factor, state.Average,
                          ewma(Factor, state.Average, v), state.StdDev, v),
          Count |-> IF state.Count < startSize
                    THEN state.Count + 1 ELSE state.Count]

\* m.Average as detect sets it (detector.go:152, 158).
baseline_new(found, state, v) ==
    IF ~found THEN v ELSE ewma(Factor, state.Average, v)

baseline(found, state, v) == IF ~found THEN v ELSE state.Average

\* m.Score as detect sets it (detector.go:167-172).
score_noGate(stateN, v, startSize) ==
    div3Sigma(stateN.Average, stateN.StdDev, v)

score(stateN, v, startSize) ==
    IF stateN.Count >= startSize
    THEN div3Sigma(stateN.Average, stateN.StdDev, v)
    ELSE 0

\* ---------------------------------------------------------------- match
\* The blacklist loop of match (detector.go:116-122); the rule loop after the
\* unconditional "return true" is never executed.
blackListed_firstOnly(bl, name) ==
    bl # <<>> /\ Match(Head(bl), name)

RECURSIVE blackListed(_, _)
blackListed(bl, name) ==
    IF bl = <<>> THEN FALSE
    ELSE Match(Head(bl), name) \/ blackListed(Tail(bl), name)

\* Some rule pattern matches the name (the condition of detector.go:125-126).
ruleMatched(rs, name) == \E i \in 1..Len(rs) : Match(rs[i], name)

\* The first rule pattern that matches the name (the loop of detector.go:124).
firstRule(rs, name) ==
    rs[CHOOSE i \in 1..Len(rs) :
          /\ Match(rs[i], name)
          /\ \A j \in 1..(i - 1) : ~Match(rs[j], name)]

match_inverted(bl, rs, name) == blackListed(bl, name)

\* match with the rule loop of lines 124-137 in force (no "return true").
match_rules(bl, rs, name) == ~blackListed(bl, name) /\ ruleMatched(rs, name)

match(bl, rs, name) == ~blackListed(bl, name)

\* d.rulesCache after a call of match: line 127 (rulesCache.Set) lies behind
\* the "return true" of line 122 and is never reached.
matchCache_rules(bl, rs, name, cache) ==
    IF ~blackListed(bl, name) /\ ruleMatched(rs, name)
    THEN cache \cup {name} ELSE cache

matchCache(bl, rs, name, cache) == cache

\* d.rulesNames after a call of match: lines 128-133 are never reached.
matchNames_rules(bl, rs, name, idx) ==
    IF ~blackListed(bl, name) /\ ruleMatched(rs, name)
    THEN LET p == firstRule(rs, name)
         IN [k \in DOMAIN idx \cup {p} |->
               IF k = p
               THEN (IF p \in DOMAIN idx THEN Append(idx[p], name) ELSE <<name>>)
               ELSE idx[k]]
    ELSE idx

matchNames(bl, rs, name, idx) == idx

\* ---------------------------------------------------------------- state
VARIABLES
    ln,          \* listener: "Init", "Listening", "Stopped" (process exited)
    blackList,   \* cfg.Detector.BlackList
    startSize,   \* cfg.Detector.StartSize
    rules,       \* d.rules
    rulesCache,  \* d.rulesCache: set of cached names
    rulesNames,  \* d.rulesNames: pattern -> names
    pc,          \* position of each connection's handler
    nlines,      \* lines the connections have delivered so far
    m,           \* handle/detect: m
    err,         \* handle/detect: err of the handler's latest failing or passing call
    state,       \* detect: state (what Get returned)
    stateN,      \* detect: stateN
    store,       \* the state store: metric name -> State
    rc,          \* d.rc, the channel of detected metrics
    nput,        \* per metric name, how many Puts succeeded
    done,        \* how each handler's latest loop iteration ended
    eof,         \* the client of each connection has ended its stream
    cur,         \* number of the line each handler is working on
    rcFrom       \* for each element of rc, the connection and line it came from

vars == <<ln, blackList, startSize, rules, rulesCache, rulesNames, pc, nlines,
          m, err, state, stateN, store, rc, nput, done, eof, cur, rcFrom>>

\* The environment and history variables, which the handlers never read.
hvars == <<eof, cur, rcFrom>>

cfgVars == <<blackList, startSize, rules, rulesCache, rulesNames>>

\* New(cfg, db): an empty channel, an empty cache, an empty index, no rules.
Init ==
    /\ ln = "Init"
    /\ blackList \in BlackLists
    /\ startSize \in 0..MaxStartSize
    /\ rules = <<>>
    /\ rulesCache = {}
    /\ rulesNames = <<>>
    /\ pc = [c \in Conns |-> "idle"]
    /\ nlines = 0
    /\ m = [c \in Conns |-> NoMetric]
    /\ err = [c \in Conns |-> "nil"]
    /\ state = [c \in Conns |-> NoState]
    /\ stateN = [c \in Conns |-> NoState]
    /\ store = <<>>
    /\ rc = <<>>
    /\ nput = [n \in Names |-> 0]
    /\ done = [c \in Conns |-> "none"]
    /\ eof = [c \in Conns |-> FALSE]
    /\ cur = [c \in Conns |-> 0]
    /\ rcFrom = <<>>

\* ---------------------------------------------------------------- Start
\* net.Listen succeeds, or fails and log.Fatal exits the process.
Listen ==
    /\ ln = "Init"
    /\ \E ok \in BOOLEAN : ln' = IF ok THEN "Listening" ELSE "Stopped"
    /\ UNCHANGED <<cfgVars, pc, nlines, m, err, state, stateN, store, rc, nput, done>>

\* Accept followed by a call of d.handle(conn) without "go": the loop accepts
\* again only when the handler it called has returned.
Accept_sync(c) ==
    /\ ln = "Listening"
    /\ pc[c] = "idle"
    /\ \A d \in Conns \ {c} : pc[d] \in {"idle", "closed"}
    /\ pc' = [pc EXCEPT ![c] = "scan"]
    /\ UNCHANGED <<ln, cfgVars, nlines, m, err, state, stateN, store, rc, nput, done>>

\* ln.Accept() returns a connection and "go d.handle(conn)" starts its handler.
Accept(c) ==
    /\ ln = "Listening"
    /\ pc[c] = "idle"
    /\ pc' = [pc EXCEPT ![c] = "scan"]
    /\ UNCHANGED <<ln, cfgVars, nlines, m, err, state, stateN, store, rc, nput, done>>

\* ln.Accept() fails and log.Fatal exits the process.
AcceptFail ==
    /\ ln = "Listening"
    /\ ln' = "Stopped"
    /\ UNCHANGED <<cfgVars, pc, nlines, m, err, state, stateN, store, rc, nput, done>>

\* ---------------------------------------------------------------- handle
\* handle, lines 80-94: the client has sent a line. scanner.Scan() returns
\* true with it and parseMetric decodes it; a line that fails to parse is
\* logged and skipped. For a line that does not fit the scanner's buffer
\* scanner.Scan() returns false: the loop ends and the deferred conn.Close()
\* runs (lines 75-78).
Scan(c) ==
    /\ ln = "Listening"
    /\ pc[c] = "scan"
    /\ nlines < MaxLines
    /\ nlines' = nlines + 1
    /\ \E l \in Lines :
        IF tooLong(l)
        THEN /\ m' = [m EXCEPT ![c] = NoMetric]
             /\ err' = [err EXCEPT ![c] = "ErrTooLong"]
             /\ pc' = [pc EXCEPT ![c] = "closed"]
             /\ done' = [done EXCEPT ![c] = "tooLong"]
        ELSE IF parseOk(l)
        THEN /\ m' = [m EXCEPT ![c] = parseMetric(l)]
             /\ err' = [err EXCEPT ![c] = "nil"]
             /\ pc' = [pc EXCEPT ![c] = "match"]
             /\ done' = [done EXCEPT ![c] = "none"]
        ELSE /\ m' = [m EXCEPT ![c] = NoMetric]
             /\ err' = [err EXCEPT ![c] = "ErrParse"]
             /\ pc' = pc
             /\ done' = [done EXCEPT ![c] = "skipped"]
    /\ UNCHANGED <<ln, cfgVars, state, stateN, store, rc, nput>>

\* A handler that is torn down wherever it is when its connection ends.
Close_abandon(c) ==
    /\ ln = "Listening"
    /\ pc[c] \in {"scan", "put"}
    /\ pc' = [pc EXCEPT ![c] = "closed"]
    /\ UNCHANGED <<ln, cfgVars, nlines, m, err, state, stateN, store, rc, nput, done>>

\* scanner.Scan() returns false (end of stream or read error): the loop ends
\* and the deferred conn.Close() runs.
Close(c) ==
    /\ ln = "Listening"
    /\ pc[c] = "scan"
    /\ pc' = [pc EXCEPT ![c] = "closed"]
    /\ UNCHANGED <<ln, cfgVars, nlines, m, err, state, stateN, store, rc, nput, done>>

\* if d.match(m) { ... }: a rejected metric ends the iteration.
MatchStep(c) ==
    /\ ln = "Listening"
    /\ pc[c] = "match"
    /\ IF match(blackList, rules, m[c].Name)
       THEN /\ pc' = [pc EXCEPT ![c] = "get"]
            /\ m' = m
            /\ done' = done
       ELSE /\ pc' = [pc EXCEPT ![c] = "scan"]
            /\ m' = [m EXCEPT ![c] = NoMetric]
            /\ done' = [done EXCEPT ![c] = "rejected"]
    /\ rulesCache' = matchCache(blackList, rules, m[c].Name, rulesCache)
    /\ rulesNames' = matchNames(blackList, rules, m[c].Name, rulesNames)
    /\ UNCHANGED <<ln, blackList, startSize, rules, nlines, err, state, stateN,
                   store, rc, nput>>

\* detect, line 146: an error of Get other than ErrNotFound is returned.
unexpected_inverted(e) == e # "nil" /\ e = "ErrNotFound"
unexpected(e) == e # "nil" /\ e # "ErrNotFound"

\* handle, line 97: an error of detect skips the sample.
detectFailed_ignored(e) == FALSE
detectFailed(e) == e # "nil"

\* detect, lines 142-172: Get, then the computation of stateN and m.Score.
\* Get fails with an unexpected error, reports ErrNotFound for an absent name,
\* or returns the stored state.
Get(c) ==
    /\ ln = "Listening"
    /\ pc[c] = "get"
    /\ LET name == m[c].Name
           present == name \in DOMAIN store
       IN \E e \in {"GetFailed", IF present THEN "nil" ELSE "ErrNotFound"} :
            /\ err' = [err EXCEPT ![c] = e]
            /\ IF unexpected(e)
               THEN /\ pc' = [pc EXCEPT ![c] = "scan"]
                    /\ m' = [m EXCEPT ![c] = NoMetric]
                    /\ done' = [done EXCEPT ![c] = "failed"]
                    /\ UNCHANGED <<state, stateN>>
               ELSE LET found == e # "ErrNotFound"
                        st == IF e = "nil" THEN store[name] ELSE NoState
                        sn == nextState(found, st, m[c].Value, startSize)
                    IN /\ state' = [state EXCEPT ![c] = st]
                       /\ stateN' = [stateN EXCEPT ![c] = sn]
                       /\ m' = [m EXCEPT ![c] =
                                  [@ EXCEPT !.Average = baseline(found, st, m[c].Value),
                                            !.Score = score(sn, m[c].Value, startSize)]]
                       /\ pc' = [pc EXCEPT ![c] = "put"]
                       /\ done' = done
    /\ UNCHANGED <<ln, cfgVars, nlines, store, rc, nput>>

\* Put that replaces the whole store by the one entry it writes.
Put_clobber(c) ==
    /\ ln = "Listening"
    /\ pc[c] = "put"
    /\ \E e \in {"nil", "PutFailed"} :
        /\ err' = [err EXCEPT ![c] = e]
        /\ IF e = "nil"
           THEN /\ store' = [k \in {m[c].Name} |-> stateN[c]]
                /\ nput' = [nput EXCEPT ![m[c].Name] = @ + 1]
           ELSE UNCHANGED <<store, nput>>
        /\ IF detectFailed(e)
           THEN /\ pc' = [pc EXCEPT ![c] = "scan"]
                /\ m' = [m EXCEPT ![c] = NoMetric]
                /\ done' = [done EXCEPT ![c] = "failed"]
           ELSE /\ pc' = [pc EXCEPT ![c] = "publish"]
                /\ m' = m
                /\ done' = done
    /\ state' = [state EXCEPT ![c] = NoState]
    /\ stateN' = [stateN EXCEPT ![c] = NoState]
    /\ UNCHANGED <<ln, cfgVars, nlines, rc>>

\* detect, lines 173-174, and the error check of handle, lines 97-100:
\* Put stores stateN, or fails and the sample is skipped.
Put(c) ==
    /\ ln = "Listening"
    /\ pc[c] = "put"
    /\ \E e \in {"nil", "PutFailed"} :
        /\ err' = [err EXCEPT ![c] = e]
        /\ IF e = "nil"
           THEN /\ store' = [k \in DOMAIN store \cup {m[c].Name} |->
                               IF k = m[c].Name THEN stateN[c] ELSE store[k]]
                /\ nput' = [nput EXCEPT ![m[c].Name] = @ + 1]
           ELSE UNCHANGED <<store, nput>>
        /\ IF detectFailed(e)
           THEN /\ pc' = [pc EXCEPT ![c] = "scan"]
                /\ m' = [m EXCEPT ![c] = NoMetric]
                /\ done' = [done EXCEPT ![c] = "failed"]
           ELSE /\ pc' = [pc EXCEPT ![c] = "publish"]
                /\ m' = m
                /\ done' = done
    /\ state' = [state EXCEPT ![c] = NoState]
    /\ stateN' = [stateN EXCEPT ![c] = NoState]
    /\ UNCHANGED <<ln, cfgVars, nlines, rc>>

\* A completed send on a channel: the value joins the buffer at its end.
send_front(q, x) == <<x>> \o q
send(q, x) == Append(q, x)

\* d.rc <- m: a send on a buffered channel, which waits while the buffer is full.
Publish(c) ==
    /\ ln = "Listening"
    /\ pc[c] = "publish"
    /\ Len(rc) < bufferedDetectedMetricsLimit
    /\ rc' = send(rc, m[c])
    /\ m' = [m EXCEPT ![c] = NoMetric]
    /\ pc' = [pc EXCEPT ![c] = "scan"]
    /\ done' = [done EXCEPT ![c] = "sent"]
    /\ UNCHANGED <<ln, cfgVars, nlines, err, state, stateN, store, nput>>

Handle(c) ==
    \/ Scan(c) \/ Close(c) \/ MatchStep(c)
    \/ Get(c) \/ Put(c) \/ Publish(c)

Next ==
    \/ Listen /\ UNCHANGED hvars
    \/ AcceptFail /\ UNCHANGED hvars
    \/ \E c \in Conns : Accept(c) /\ UNCHANGED hvars
    \/ \E c \in Conns : Scan(c) /\ UNCHANGED hvars
    \/ \E c \in Conns : Close(c) /\ UNCHANGED hvars
    \/ \E c \in Conns : MatchStep(c) /\ UNCHANGED hvars
    \/ \E c \in Conns : Get(c) /\ UNCHANGED hvars
    \/ \E c \in Conns : Put(c) /\ UNCHANGED hvars
    \/ \E c \in Conns : Publish(c) /\ UNCHANGED hvars

Spec == Init /\ [][Next]_vars

\* match() applied to arbitrary rule lists: the detector with d.rules drawn
\* from RuleLists.
InitM ==
    /\ ln = "Init"
    /\ blackList \in BlackLists
    /\ startSize = MaxStartSize
    /\ rules \in RuleLists
    /\ rulesCache = {}
    /\ rulesNames = <<>>
    /\ pc = [c \in Conns |-> "idle"]
    /\ nlines = 0
    /\ m = [c \in Conns |-> NoMetric]
    /\ err = [c \in Conns |-> "nil"]
    /\ state = [c \in Conns |-> NoState]
    /\ stateN = [c \in Conns |-> NoState]
    /\ store = <<>>
    /\ rc = <<>>
    /\ nput = [n \in Names |-> 0]
    /\ done = [c \in Conns |-> "none"]
    /\ eof = [c \in Conns |-> FALSE]
    /\ cur = [c \in Conns |-> 0]
    /\ rcFrom = <<>>

SpecM == InitM /\ [][Next]_vars

\* The detector with the origin of every line recorded: cur[c] is the number
\* (in order of arrival) of the line handler c has read last, rcFrom the
\* connection and line number of every element of rc.
ScanOrd(c) ==
    /\ Scan(c)
    /\ cur' = [cur EXCEPT ![c] = nlines']
    /\ UNCHANGED <<eof, rcFrom>>

PublishOrd(c) ==
    /\ Publish(c)
    /\ rcFrom' = send(rcFrom, [conn |-> c, no |-> cur[c]])
    /\ UNCHANGED <<eof, cur>>

NextOrd ==
    \/ Listen /\ UNCHANGED hvars
    \/ AcceptFail /\ UNCHANGED hvars
    \/ \E c \in Conns : Accept(c) /\ UNCHANGED hvars
    \/ \E c \in Conns : ScanOrd(c)
    \/ \E c \in Conns : Close(c) /\ UNCHANGED hvars
    \/ \E c \in Conns : MatchStep(c) /\ UNCHANGED hvars
    \/ \E c \in Conns : Get(c) /\ UNCHANGED hvars
    \/ \E c \in Conns : Put(c) /\ UNCHANGED hvars
    \/ \E c \in Conns : PublishOrd(c)

InitOrd == Init /\ startSize = MaxStartSize /\ blackList # <<>>

SpecOrd == InitOrd /\ [][NextOrd]_vars

\* The detector constructed with an empty blacklist, so that every metric
\* name reaches detect().
InitN == Init /\ startSize = MaxStartSize /\ blackList = <<>>

SpecN == InitN /\ [][Next]_vars

\* The detector with the clients' end of stream explicit: eof[c] becomes true
\* when the client of c disconnects or its transport fails, at any time after
\* the connection was accepted; scanner.Scan() returns a line only before
\* that, and returns false after it.
ClientClose(c) ==
    /\ ln = "Listening"
    /\ pc[c] \notin {"idle", "closed"}
    /\ ~eof[c]
    /\ eof' = [eof EXCEPT ![c] = TRUE]
    /\ UNCHANGED <<ln, cfgVars, pc, nlines, m, err, state, stateN, store, rc,
                   nput, done, cur, rcFrom>>

ScanL(c) == ~eof[c] /\ Scan(c) /\ UNCHANGED hvars
CloseL(c) == eof[c] /\ Close(c) /\ UNCHANGED hvars
MatchL(c) == MatchStep(c) /\ UNCHANGED hvars
GetL(c) == Get(c) /\ UNCHANGED hvars
PutL(c) == Put(c) /\ UNCHANGED hvars
PublishL(c) == Publish(c) /\ UNCHANGED hvars

\* The steps the handler of connection c takes by itself once it is
\* scheduled: everything but reading a line, which needs the client to have
\* sent one. scanner.Scan() returning false after the end of the stream is
\* the goroutine's own step.
HandleOwnL(c) ==
    \/ CloseL(c) \/ MatchL(c)
    \/ GetL(c) \/ PutL(c) \/ PublishL(c)

\* The steps of the handler of connection c (one goroutine).
HandleL(c) == ScanL(c) \/ HandleOwnL(c)

NextL ==
    \/ Listen /\ UNCHANGED hvars
    \/ AcceptFail /\ UNCHANGED hvars
    \/ \E c \in Conns : Accept(c) /\ UNCHANGED hvars
    \/ \E c \in Conns : ClientClose(c)
    \/ \E c \in Conns : ScanL(c)
    \/ \E c \in Conns : CloseL(c)
    \/ \E c \in Conns : MatchL(c)
    \/ \E c \in Conns : GetL(c)
    \/ \E c \in Conns : PutL(c)
    \/ \E c \in Conns : PublishL(c)

InitL == Init /\ startSize = MaxStartSize /\ blackList # <<>>

SpecL == InitL /\ [][NextL]_vars

\* The Go scheduler runs every goroutine that can take a step: each handler
\* is scheduled fairly for the steps it takes by itself. Nothing is assumed
\* of the clients or of Accept: a client may stay connected and silent, its
\* handler waiting in scanner.Scan() for ever.
FairSpecL == SpecL /\ \A c \in Conns : WF_vars(HandleOwnL(c))

TypeOK ==
    /\ ln \in {"Init", "Listening", "Stopped"}
    /\ \A c \in Conns :
        pc[c] \in {"idle", "scan", "match", "get", "put", "publish", "closed"}
    /\ Len(rc) <= bufferedDetectedMetricsLimit

\* ---------------------------------------------------------------- helpers
\* name matches at least one configured blacklist pattern.
InBlackList(name) == \E i \in 1..Len(blackList) : Match(blackList[i], name)

\* Handler c took a step that left position p.
Left(c, p) == pc[c] = p /\ pc'[c] # p

\* ---------------------------------------------------------------- claims

\* C1: no lost updates. With startSize >= 1, the stored count of every metric
\* name equals min(number of Puts applied to it, startSize), however the Get
\* and Put steps of the handlers interleave.
C1_NoLostUpdates ==
    startSize >= 1 =>
        \A n \in DOMAIN store : store[n].Count = Min(nput[n], startSize)

\* C2: publishing never blocks a handler: a running handler that has reached
\* the send on rc can always take its next step, also when rc is full.
C2_PublishNeverBlocks ==
    \A c \in Conns :
        (ln = "Listening" /\ pc[c] = "publish") => ENABLED Handle(c)

\* C3: blacklist precedence. match() returns false for every name that matches
\* at least one blacklist pattern: no handler is ever past match() (at Get, at
\* Put or at the send) with such a name.
C3_BlacklistPrecedence ==
    \A c \in Conns :
        (pc[c] \in {"get", "put", "publish"}) => ~InBlackList(m[c].Name)

C3_Witness ==
    \E c \in Conns : done[c] = "rejected" /\ blackList # <<>> /\ pc[c] = "scan"

\* C4: a sample whose name is blacklisted has no effect beyond parsing: the
\* match step for it returns the handler to the head of the loop (no Get, no
\* Put, no send) and leaves the store and the channel unchanged.
C4_BlacklistedNoEffect ==
    [][\A c \in Conns :
          (Left(c, "match") /\ InBlackList(m[c].Name)) =>
              /\ pc'[c] = "scan"
              /\ store' = store
              /\ nput' = nput
              /\ rc' = rc
              /\ state' = state
              /\ stateN' = stateN]_vars

C4_Witness ==
    \E c \in Conns :
        /\ done[c] = "rejected"
        /\ store # <<>>
        /\ rc # <<>>

\* C5: first observation. When Get reported ErrNotFound, the Put of detect
\* stores average = value, stddev = 0, count = 1 and the score is 0, for
\* every startSize.
C5_FirstObservation ==
    [][\A c \in Conns :
          (Left(c, "put") /\ err[c] = "ErrNotFound" /\ pc'[c] = "publish") =>
              /\ store'[m[c].Name] =
                     [Average |-> m[c].Value, StdDev |-> 0, Count |-> 1]
              /\ m'[c].Score = 0
              /\ m'[c].Average = m[c].Value]_vars

C5_Witness ==
    \E c \in Conns :
        /\ pc[c] = "publish"
        /\ startSize <= 1
        /\ nput[m[c].Name] = 1
        /\ store[m[c].Name] = [Average |-> m[c].Value, StdDev |-> 0, Count |-> 1]
        /\ m[c].Score = 0

\* C6 as claimed: the stored count never exceeds startSize, and a found prior
\* state yields count = min(prior count + 1, startSize).
C6_Original ==
    /\ \A n \in DOMAIN store : store[n].Count <= startSize
    /\ \A c \in Conns :
         (pc[c] = "put" /\ err[c] = "nil") =>
             stateN[c].Count = Min(state[c].Count + 1, startSize)

\* C6 amended: the stored count never exceeds max(startSize, 1), and a found
\* prior state yields count = min(prior count + 1, max(startSize, 1)).
C6_Saturation ==
    /\ \A n \in DOMAIN store : store[n].Count <= Max(startSize, 1)
    /\ \A c \in Conns :
         (pc[c] = "put" /\ err[c] = "nil") =>
             stateN[c].Count = Min(state[c].Count + 1, Max(startSize, 1))

C6_Witness ==
    \E c \in Conns :
        /\ pc[c] = "put"
        /\ err[c] = "nil"
        /\ startSize >= 2
        /\ state[c].Count = startSize
        /\ stateN[c].Count = startSize

\* C7: scoring gate. Whenever the count of the new state is below startSize
\* the score is 0; a non-zero score needs a new count of at least startSize.
C7_ScoringGate ==
    \A c \in Conns :
        (pc[c] = "put" /\ stateN[c].Count < startSize) => m[c].Score = 0

C7_Witness ==
    \E c \in Conns :
        /\ pc[c] = "put"
        /\ stateN[c].Count < startSize
        /\ div3Sigma(stateN[c].Average, stateN[c].StdDev, m[c].Value) # 0
        /\ m[c].Score = 0

\* C8: the stored count of a metric name never decreases.
C8_CountMonotone ==
    [][\A n \in DOMAIN store : store'[n].Count >= store[n].Count]_vars

\* C9: when Get fails with an unexpected error, detect returns without Put:
\* the store and the channel are unchanged, nothing is sent, and the handler
\* is back at the head of its loop with the connection open.
C9_GetFailure ==
    [][\A c \in Conns :
          (Left(c, "get") /\ err'[c] = "GetFailed") =>
              /\ pc'[c] = "scan"
              /\ store' = store
              /\ nput' = nput
              /\ rc' = rc
              /\ done'[c] = "failed"]_vars

C9_Witness ==
    \E c \in Conns :
        /\ pc[c] = "scan"
        /\ err[c] = "GetFailed"
        /\ done[c] = "failed"
        /\ store # <<>>

\* C10: when Put fails, the sample is not sent to the channel and the handler
\* is back at the head of its loop with the connection open.
C10_PutFailure ==
    [][\A c \in Conns :
          (Left(c, "put") /\ err'[c] = "PutFailed") =>
              /\ pc'[c] = "scan"
              /\ rc' = rc
              /\ done'[c] = "failed"]_vars

C10_Witness ==
    \E c \in Conns :
        /\ pc[c] = "scan"
        /\ err[c] = "PutFailed"
        /\ done[c] = "failed"
        /\ rc # <<>>

\* C11: a malformed line is skipped. The step in which handler c reads a line
\* that yields no metric (a line is consumed, no other handler moves and c
\* does not go on to match) leaves c at the head of its loop with the
\* connection open, and leaves the store, the channel, the rule cache and the
\* index unchanged: a malformed line never closes the connection.
C11_MalformedSkipped ==
    [][\A c \in Conns :
          (/\ pc[c] = "scan"
           /\ nlines' = nlines + 1
           /\ pc'[c] # "match"
           /\ \A d \in Conns \ {c} :
                 /\ pc'[d] = pc[d]
                 /\ m'[d] = m[d]
                 /\ err'[d] = err[d]
                 /\ done'[d] = done[d]) =>
              /\ pc'[c] = "scan"
              /\ store' = store
              /\ nput' = nput
              /\ rc' = rc
              /\ state' = state
              /\ stateN' = stateN
              /\ rulesCache' = rulesCache
              /\ rulesNames' = rulesNames]_vars

\* C15: pipeline order per sample. A handler reaches match only from a line
\* that parsed, reaches Get only from match with a name that is not
\* blacklisted, reaches Put only from a Get without an unexpected error,
\* reaches the send only from a Put without error that stored its new state;
\* the channel changes only by a handler at the send appending its own metric
\* once and moving on; and every sample that has reached the send is
\* published (or the process has exited).
C15_PipelineOrder ==
    /\ [][/\ \A c \in Conns :
               (pc'[c] = "match" /\ pc[c] # "match") =>
                   /\ pc[c] = "scan"
                   /\ err'[c] = "nil"
                   /\ \E l \in GoodLines : m'[c] = parseMetric(l)
          /\ \A c \in Conns :
               (pc'[c] = "get" /\ pc[c] # "get") =>
                   pc[c] = "match" /\ ~InBlackList(m[c].Name)
          /\ \A c \in Conns :
               (pc'[c] = "put" /\ pc[c] # "put") =>
                   /\ pc[c] = "get"
                   /\ err'[c] \in {"nil", "ErrNotFound"}
                   /\ store' = store
          /\ \A c \in Conns :
               (pc'[c] = "publish" /\ pc[c] # "publish") =>
                   /\ pc[c] = "put"
                   /\ err'[c] = "nil"
                   /\ store'[m[c].Name] = stateN[c]
                   /\ m'[c] = m[c]
          /\ \A c \in Conns : Left(c, "publish") => rc' = Append(rc, m[c])
          /\ rc' # rc => \E c \in Conns : Left(c, "publish") /\ pc'[c] = "scan"]_vars
    /\ \A c \in Conns :
          (pc[c] = "publish") ~> (pc[c] # "publish" \/ ln = "Stopped")

\* C16: independence of distinct metric names. A Put for a name leaves every
\* other name's entry as it is, a Get returns the entry of its own name and
\* changes nothing in the store, and a handler at Get or Put can always take
\* its step, whatever the other handlers are doing.
C16_NameIndependence ==
    /\ [][\A c \in Conns :
            /\ Left(c, "put") =>
                 \A n \in Names \ {m[c].Name} :
                    /\ (n \in DOMAIN store') <=> (n \in DOMAIN store)
                    /\ (n \in DOMAIN store) => store'[n] = store[n]
            /\ (Left(c, "get") /\ pc'[c] = "put") =>
                 /\ store' = store
                 /\ state'[c] = IF m[c].Name \in DOMAIN store
                                THEN store[m[c].Name] ELSE NoState]_vars
    /\ [](\A c \in Conns :
            (ln = "Listening" /\ pc[c] \in {"get", "put"}) =>
                ENABLED (Get(c) \/ Put(c)))

C16_Witness ==
    \E c \in Conns :
        /\ pc[c] = "publish"
        /\ DOMAIN store = Names
        /\ \E d \in Conns \ {c} : pc[d] \in {"get", "put"} /\ m[d].Name # m[c].Name

\* C17: the baseline (m.Average) of a sample is the average its own Get
\* returned, and the sample's value on a first observation.
C17_Baseline ==
    \A c \in Conns :
        pc[c] = "put" =>
            m[c].Average = IF err[c] = "ErrNotFound"
                           THEN m[c].Value ELSE state[c].Average

C17_Witness ==
    \E c \in Conns :
        /\ pc[c] = "put"
        /\ err[c] = "nil"
        /\ stateN[c].Average # state[c].Average
        /\ m[c].Average = state[c].Average

\* C20: listener lifecycle. Once Stopped the listener stays Stopped and no
\* handler moves; from Listening it only goes to Stopped; a handler is started
\* only while Listening, one per accepted connection and once per connection;
\* while Listening a connection that has not been accepted can be accepted
\* whatever the handlers are doing.
C20_ListenerLifecycle ==
    /\ [][/\ ln = "Stopped" => (ln' = "Stopped" /\ pc' = pc)
          /\ ln = "Listening" => ln' \in {"Listening", "Stopped"}
          /\ \A c \in Conns :
               (pc[c] = "idle" /\ pc'[c] # "idle") =>
                   /\ ln = "Listening"
                   /\ pc'[c] = "scan"
                   /\ \A d \in Conns \ {c} : pc'[d] = pc[d]
          /\ \A c \in Conns : pc[c] # "idle" => pc'[c] # "idle"]_vars
    /\ [](\A c \in Conns :
            (ln = "Listening" /\ pc[c] = "idle") => ENABLED Accept(c))

C20_Witness ==
    /\ ln = "Stopped"
    /\ \E c \in Conns : pc[c] = "publish" /\ Len(rc) = bufferedDetectedMetricsLimit
    /\ \E c \in Conns : pc[c] = "idle"

\* C18: pass-through filtering. Whatever d.rules contains, the match step
\* admits a name (the handler goes on to Get) exactly when no blacklist
\* pattern matches it, and rejects it otherwise.
C18_PassThrough ==
    [][\A c \in Conns :
          Left(c, "match") =>
              /\ pc'[c] \in {"get", "scan"}
              /\ (pc'[c] = "get") <=> ~InBlackList(m[c].Name)]_vars

C18_Witness ==
    \E c \in Conns :
        /\ pc[c] = "get"
        /\ rules # <<>>
        /\ ~ruleMatched(rules, m[c].Name)

\* C19: the rule cache and the reverse index are never written: no step of
\* any handler changes them, so they stay as New() made them and no two
\* handlers can be at a write of the index together.
C19_CacheIndexUntouched ==
    /\ [][rulesCache' = rulesCache /\ rulesNames' = rulesNames]_vars
    /\ [](rulesCache = {} /\ rulesNames = <<>>)

C19_Witness ==
    \E c \in Conns :
        /\ pc[c] \in {"get", "put"}
        /\ ruleMatched(rules, m[c].Name)
        /\ \E d \in Conns \ {c} :
              pc[d] \in {"get", "put"} /\ ruleMatched(rules, m[d].Name)

\* C12: per-connection ordering. A handler takes up a new line only at the
\* head of its loop, when no Get, Put or send of its previous line is pending,
\* and line numbers only grow; the elements of rc that come from one
\* connection are in the order their lines arrived.
C12_ConnectionOrder ==
    /\ [][\A c \in Conns :
            /\ cur'[c] # cur[c] => (pc[c] = "scan" /\ cur'[c] > cur[c])
            /\ pc[c] \in {"match", "get", "put", "publish"} => cur'[c] = cur[c]]_vars
    /\ [](/\ Len(rcFrom) = Len(rc)
          /\ \A i, j \in 1..Len(rcFrom) :
                (i < j /\ rcFrom[i].conn = rcFrom[j].conn) =>
                    rcFrom[i].no < rcFrom[j].no)

C12_Witness ==
    /\ Len(rcFrom) >= 2
    /\ rcFrom[1].conn = rcFrom[2].conn
    /\ \E d \in Conns :
          /\ d # rcFrom[1].conn
          /\ pc[d] = "publish"
          /\ cur[d] > rcFrom[1].no
          /\ cur[d] < rcFrom[2].no

\* C13: handler termination. Under fair scheduling, every handler whose input
\* has ended eventually closes its connection and terminates (or the whole
\* process has exited).
C13_HandlerTerminates ==
    \A c \in Conns : eof[c] ~> (pc[c] = "closed" \/ ln = "Stopped")

\* C14: connection isolation. The end of a client's stream changes nothing
\* but that; a handler closes only from the head of its loop, and the closing
\* step changes nothing in the store, the channel or any other handler; a
\* handler at Put whose client has gone can still take its Put step.
C14_ConnectionIsolation ==
    /\ [][\A c \in Conns :
            /\ (eof'[c] /\ ~eof[c]) =>
                  UNCHANGED <<pc, m, err, state, stateN, store, rc, nput, done>>
            /\ (pc'[c] = "closed" /\ pc[c] # "closed") =>
                  /\ pc[c] = "scan"
                  /\ UNCHANGED <<store, rc, nput, eof>>
                  /\ \A d \in Conns \ {c} :
                        /\ pc'[d] = pc[d]
                        /\ m'[d] = m[d]
                        /\ err'[d] = err[d]
                        /\ state'[d] = state[d]
                        /\ stateN'[d] = stateN[d]
                        /\ done'[d] = done[d]]_vars
    /\ [](\A c \in Conns :
            (ln = "Listening" /\ eof[c] /\ pc[c] = "put") => ENABLED PutL(c))

C14_Witness ==
    \E c \in Conns :
        /\ pc[c] = "closed"
        /\ \E d \in Conns \ {c} :
              /\ eof[d]
              /\ pc[d] = "publish"
              /\ m[d].Name \in DOMAIN store

====
